---- MODULE Spec2Model ----
(***************************************************************************)
(* Model of src/src/main.cpp: a timer ISR (onTimer) that fills a double    *)
(* buffer of ADC samples and notifies TaskA, TaskA that averages a filled  *)
(* buffer and publishes it in globalAverage under avgMutex, and TaskB that *)
(* echoes serial input and answers "avg" with the published average.       *)
(*                                                                         *)
(* Contexts interleave at the granularity of one shared-memory access or   *)
(* one RTOS / library call per step.  onTimer is one step: no other        *)
(* context reads writeIndex or samplePos, and the ISR makes one store to   *)
(* samples and one notification per invocation.                            *)
(*                                                                         *)
(* A float is modelled by the exact rational <<p, q>> in lowest terms that *)
(* the division yields; text is a sequence of pieces (strings) whose       *)
(* concatenation is the text.                                              *)
(***************************************************************************)
EXTENDS Integers, Sequences, FiniteSets, TLC

\* Length of one sample buffer.  The source fixes it at 10 (main.cpp:38, 62,
\* 95, 99); the model is parametric in it and is checked at a reduced length.
BufLen == 2

\* Top level of the analog input in the model (the device's range is wider).
MaxAdc == 1

\* Number of input lines of any kind the serial peer sends in the model.
MaxLines == 1

\* Number of commands a peer that sends nothing else sends in the model.
MaxQueries == 2

\* Ticks TaskB waits for avgMutex: pdMS_TO_TICKS(50) in the source
\* (main.cpp:144), reduced in the model.
TakeTimeout == 2

\* Readings analogRead returns in the model: the bottom or the top level.
AdcRange == {0, MaxAdc}

Slots == 0..1

VARIABLES
    \* ---- globals of main.cpp
    samples,        \* int samples[2][10]
    writeIndex,     \* buffer the ISR writes to
    samplePos,      \* index within the current buffer
    globalAverage,  \* float globalAverage
    avgMutex,       \* "null" (not created), "free", or the task holding it
    taskAHandle,    \* FALSE while NULL
    timerEnabled,   \* timerAlarmEnable has run
    \* ---- TaskA's notification slot (FreeRTOS task notification)
    notifyPending,
    notifyValue,
    \* ---- setup()
    pcSetup,
    \* ---- TaskA
    pcA, bufferIndex, sum, i, average,
    \* ---- TaskB
    pcB, inputBuffer, avgCopy, waited,
    \* ---- external collaborators
    rx,             \* bytes received on Serial and not yet read
    serialOut,      \* what was written to Serial since the peer's latest line
    oled,           \* text the display shows
    displayBegun,   \* display.begin has returned success
    \* ---- history (not program state)
    linesSent,      \* lines the serial peer has sent
    lastSent,       \* payload of the latest notification sent, -1 before any
    sendToggle,     \* number of notifications sent, modulo 2
    unreceived,     \* notifications sent since TaskA last received one (0, 1, 2 = two or more)
    fillSum,        \* sum of the readings taken since the latest flip
    handedSum,      \* sum of the readings of the latest completed fill
    merged,         \* while TaskA handles a buffer: its receive followed two or more sends
    expected,       \* while TaskA handles a buffer: its sum when TaskA received its id
    torn,           \* the ISR wrote into that buffer while TaskA was summing it
    lastQuery,      \* value the latest completed "avg" query returned, or <<>>
    flipSince,      \* a buffer was completed since that query's read
    storeSince,     \* TaskA stored into globalAverage since that query's read
    repeated,       \* while TaskB answers a query: a query preceded it, with no store between
    published       \* value of TaskA's latest store, 0.0 before any

vars == <<samples, writeIndex, samplePos, globalAverage, avgMutex, taskAHandle,
          timerEnabled, notifyPending, notifyValue, pcSetup, pcA, bufferIndex,
          sum, i, average, pcB, inputBuffer, avgCopy, waited, rx, serialOut,
          oled, displayBegun, linesSent, lastSent, sendToggle, unreceived,
          fillSum, handedSum, merged, expected, torn, lastQuery, flipSince,
          storeSince, repeated, published>>

samplerVars == <<samples, writeIndex, samplePos, notifyPending, notifyValue>>
taskAVars   == <<pcA, bufferIndex, sum, i, average>>
taskBVars   == <<pcB, inputBuffer, avgCopy, waited>>
serialVars  == <<rx, serialOut, linesSent>>
queryHist   == <<lastQuery, flipSince, storeSince, repeated, published>>
sendHist    == <<lastSent, sendToggle, unreceived>>
fillHist    == <<fillSum, handedSum>>
readHist    == <<expected, torn, merged>>

----
\* Arithmetic helpers

RECURSIVE Gcd(_, _)
Gcd(a, b) == IF b = 0 THEN a ELSE Gcd(b, a % b)

\* The float p / q, as the exact rational in lowest terms.
FloatDiv(p, q) == LET g == Gcd(p, q) IN <<p \div g, q \div g>>

\* float globalAverage = 0.0
FloatZero == <<0, 1>>

----
\* State of setup() once Serial is open (main.cpp:182-183): the globals as
\* their definitions initialise them (main.cpp:38-52), no task created, the
\* timer not started.

Init ==
    /\ samples = [b \in Slots |-> [k \in 0..(BufLen - 1) |-> 0]]
    /\ writeIndex = 0
    /\ samplePos = 0
    /\ globalAverage = FloatZero
    /\ avgMutex = "null"
    /\ taskAHandle = FALSE
    /\ timerEnabled = FALSE
    /\ notifyPending = FALSE
    /\ notifyValue = 0
    /\ pcSetup = "mutex"
    /\ pcA = "none"
    /\ bufferIndex = 0      \* uninitialised, not read before xTaskNotifyWait sets it
    /\ sum = 0
    /\ i = 0
    /\ average = FloatZero
    /\ pcB = "none"
    /\ inputBuffer = <<>>
    /\ avgCopy = FloatZero  \* uninitialised, not read before it is assigned
    /\ waited = 0
    /\ rx = <<>>
    /\ serialOut = <<>>
    /\ oled = <<>>
    /\ displayBegun = FALSE
    /\ linesSent = 0
    /\ lastSent = -1
    /\ sendToggle = 0
    /\ unreceived = 0
    /\ fillSum = 0
    /\ handedSum = 0
    /\ merged = FALSE
    /\ expected = 0
    /\ torn = FALSE
    /\ lastQuery = <<>>
    /\ flipSince = FALSE
    /\ storeSince = FALSE
    /\ repeated = FALSE
    /\ published = FloatZero

----
\* The timer ISR (main.cpp:55-84)

\* Variant: eSetValueWithoutOverwrite, which keeps a pending value.
NotifySendNoOverwrite(value) ==
    /\ notifyValue' = IF notifyPending THEN notifyValue ELSE value
    /\ notifyPending' = TRUE
    /\ lastSent' = value
    /\ sendToggle' = 1 - sendToggle
    /\ unreceived' = IF unreceived < 2 THEN unreceived + 1 ELSE 2

\* Variant: a send that waits until the receiver has taken the previous value.
NotifySendWhenTaken(value) ==
    /\ ~notifyPending
    /\ notifyValue' = value
    /\ notifyPending' = TRUE
    /\ lastSent' = value
    /\ sendToggle' = 1 - sendToggle
    /\ unreceived' = IF unreceived < 2 THEN unreceived + 1 ELSE 2

\* Variant: the value sent is the index read after the flip.
NotifySendFlipped(value) ==
    /\ notifyValue' = 1 - value
    /\ notifyPending' = TRUE
    /\ lastSent' = 1 - value
    /\ sendToggle' = 1 - sendToggle
    /\ unreceived' = IF unreceived < 2 THEN unreceived + 1 ELSE 2

\* xTaskNotifyFromISR(taskAHandle, value, eSetValueWithOverwrite, ...): the
\* value replaces whatever the slot holds and the notification becomes pending.
NotifySend(value) ==
    /\ notifyValue' = value
    /\ notifyPending' = TRUE
    /\ lastSent' = value
    /\ sendToggle' = 1 - sendToggle
    /\ unreceived' = IF unreceived < 2 THEN unreceived + 1 ELSE 2

\* The ISR's effect, given the outcome of the test made after the increment
\* (full) and the buffer to write after a full one (next).
SampleWith(adcValue, full, next) ==
    /\ timerEnabled
    /\ samples' = [samples EXCEPT ![writeIndex][samplePos] = adcValue]
    /\ torn' = (torn \/ (pcA = "sum" /\ bufferIndex = writeIndex))
    /\ IF full
          THEN LET bufferJustFilled == writeIndex
               IN /\ writeIndex' = next
                  /\ samplePos' = 0
                  /\ NotifySend(bufferJustFilled)
                  /\ flipSince' = (lastQuery # <<>>)
                  /\ handedSum' = fillSum + adcValue
                  /\ fillSum' = 0
          ELSE /\ samplePos' = samplePos + 1
               /\ fillSum' = fillSum + adcValue
               /\ UNCHANGED <<writeIndex, notifyPending, notifyValue,
                              sendHist, flipSince, handedSum>>
    /\ UNCHANGED <<globalAverage, avgMutex, taskAHandle, timerEnabled, pcSetup,
                   taskAVars, taskBVars, serialVars, oled, displayBegun,
                   expected, merged, lastQuery, storeSince, repeated,
                   published>>

IsFull(pos) == pos >= BufLen

OtherBuffer(w) == 1 - w

\* Variant: the test is > instead of >=.
IsFullLate(pos) == pos > BufLen

\* Variant: the flip is missing.
SameBuffer(w) == w

SampleLate(adcValue) ==
    SampleWith(adcValue, IsFullLate(samplePos + 1), OtherBuffer(writeIndex))

SampleNoFlip(adcValue) ==
    SampleWith(adcValue, IsFull(samplePos + 1), SameBuffer(writeIndex))

\* One invocation, analogRead having returned adcValue.
Sample(adcValue) ==
    SampleWith(adcValue, IsFull(samplePos + 1), OtherBuffer(writeIndex))

\* The ISR with any reading of the ADC.
onTimer == \E adcValue \in AdcRange : Sample(adcValue)

\* The ISR while the analog input is a square wave in step with the buffers:
\* low while buffer 0 fills, high while buffer 1 fills.
onTimerWave == Sample(IF writeIndex = 0 THEN 0 ELSE MaxAdc)

----
\* TaskA (main.cpp:87-110)

\* xTaskNotifyWait(0, 0, &bufferIndex, portMAX_DELAY): blocks until a
\* notification is pending, copies its value and consumes it; then the
\* locals of the loop body are initialised (main.cpp:92-95).  The call
\* returns pdTRUE when ready.
TaskA_NotifyWaitWhen(ready) ==
    /\ pcA = "wait"
    /\ ready
    /\ bufferIndex' = notifyValue
    /\ notifyPending' = FALSE
    /\ sum' = 0
    /\ i' = 0
    /\ pcA' = "sum"
    /\ unreceived' = 0
    /\ merged' = (unreceived = 2)
    /\ expected' = handedSum
    /\ torn' = FALSE
    /\ UNCHANGED <<samples, writeIndex, samplePos, globalAverage, avgMutex,
                   taskAHandle, timerEnabled, notifyValue, pcSetup, average,
                   taskBVars, serialVars, oled, displayBegun, lastSent,
                   sendToggle, fillHist, queryHist>>

\* Variant: the result of xTaskNotifyWait is not tested, or its wait is zero.
TaskA_NotifyWaitPolling == TaskA_NotifyWaitWhen(TRUE)

TaskA_NotifyWait == TaskA_NotifyWaitWhen(notifyPending)

\* One iteration of the summing loop over buffer b (main.cpp:95-97): one
\* read of samples.  Leaving the loop and the division (main.cpp:99) touch
\* only locals and are part of the last iteration's step.  The loop
\* accumulates in the local sum; inPlace makes it accumulate in
\* globalAverage as well.
TaskA_SumOf(b, inPlace) ==
    /\ pcA = "sum"
    /\ i < BufLen
    /\ LET s == sum + samples[b][i]
       IN /\ sum' = s
          /\ globalAverage' = IF inPlace THEN FloatDiv(s, 1) ELSE globalAverage
          /\ i' = i + 1
          /\ IF i + 1 < BufLen
                THEN UNCHANGED <<pcA, average>>
                ELSE /\ average' = FloatDiv(s, BufLen)
                     /\ pcA' = "take"
    /\ UNCHANGED <<samplerVars, avgMutex, taskAHandle, timerEnabled, pcSetup,
                   bufferIndex, taskBVars, serialVars, oled, displayBegun,
                   sendHist, fillHist, readHist, queryHist>>

\* Variant: the loop reads the buffer the ISR is writing.
TaskA_SumActive == TaskA_SumOf(writeIndex, FALSE)

\* Variant: the loop accumulates in globalAverage.
TaskA_SumInPlace == TaskA_SumOf(bufferIndex, TRUE)

TaskA_Sum == TaskA_SumOf(bufferIndex, FALSE)

\* xSemaphoreTake(avgMutex, portMAX_DELAY) (main.cpp:103)
TaskA_Take ==
    /\ pcA = "take"
    /\ avgMutex = "free"
    /\ avgMutex' = "TaskA"
    /\ pcA' = "store"
    /\ UNCHANGED <<samplerVars, globalAverage, taskAHandle, timerEnabled,
                   pcSetup, bufferIndex, sum, i, average, taskBVars,
                   serialVars, oled, displayBegun, sendHist, fillHist, readHist,
                   queryHist>>

\* globalAverage = average (main.cpp:104)
TaskA_Store ==
    /\ pcA = "store"
    /\ globalAverage' = average
    /\ pcA' = "give"
    /\ storeSince' = (lastQuery # <<>>)
    /\ published' = average
    /\ UNCHANGED <<samplerVars, avgMutex, taskAHandle, timerEnabled, pcSetup,
                   bufferIndex, sum, i, average, taskBVars, serialVars, oled,
                   displayBegun, sendHist, fillHist, readHist, lastQuery, flipSince,
                   repeated>>

\* xSemaphoreGive(avgMutex) (main.cpp:106); the loop body ends and its locals
\* go out of scope.
TaskA_Give ==
    /\ pcA = "give"
    /\ avgMutex' = "free"
    /\ pcA' = "wait"
    /\ sum' = 0
    /\ i' = 0
    /\ average' = FloatZero
    /\ expected' = 0
    /\ torn' = FALSE
    /\ merged' = FALSE
    /\ UNCHANGED <<samplerVars, globalAverage, taskAHandle, timerEnabled,
                   pcSetup, bufferIndex, taskBVars, serialVars, oled,
                   displayBegun, sendHist, fillHist, queryHist>>

TaskA == TaskA_NotifyWait \/ TaskA_Sum \/ TaskA_Take \/ TaskA_Store \/ TaskA_Give

----
\* Text helpers

\* isspace(), as String::trim() uses it
IsSpace(c) == c \in {" ", "\t", "\n", "\r"}

RECURSIVE TrimLeft(_)
TrimLeft(s) ==
    IF s # <<>> /\ IsSpace(Head(s)) THEN TrimLeft(Tail(s)) ELSE s

RECURSIVE TrimRight(_)
TrimRight(s) ==
    IF s # <<>> /\ IsSpace(s[Len(s)])
       THEN TrimRight(SubSeq(s, 1, Len(s) - 1))
       ELSE s

\* String::trim() (main.cpp:136)
Trim(s) == TrimRight(TrimLeft(s))

\* The literal "avg" (main.cpp:139)
AvgCommand == <<"a", "v", "g">>

\* Serial.println(float) and String(float): the value rounded to two decimal
\* places, as "<integer part>.<two digits>".
FormatFloat(f) ==
    LET h == (200 * f[1] + f[2]) \div (2 * f[2])
    IN <<ToString(h \div 100), ".", ToString((h \div 10) % 10), ToString(h % 10)>>

\* println's line end
Eol == <<"\r\n">>

AveragePrefix == <<"Average: ">>

ErrorString == <<"ERROR! >_<...Couldn't access average">>

\* updateOLED (main.cpp:112-119): clear, print the string at the origin, show.
updateOLED(displayString) == oled' = displayString

----
\* TaskB (main.cpp:123-179)

\* Serial.available() is false (main.cpp:129): vTaskDelay (main.cpp:177)
TaskB_Delay ==
    /\ pcB = "poll"
    /\ rx = <<>>
    /\ pcB' = "delay"
    /\ UNCHANGED <<samplerVars, globalAverage, avgMutex, taskAHandle,
                   timerEnabled, pcSetup, taskAVars, inputBuffer, avgCopy,
                   waited, serialVars, oled, displayBegun, sendHist, fillHist, readHist,
                   queryHist>>

\* The delay expires.
TaskB_Wake ==
    /\ pcB = "delay"
    /\ pcB' = "poll"
    /\ UNCHANGED <<samplerVars, globalAverage, avgMutex, taskAHandle,
                   timerEnabled, pcSetup, taskAVars, inputBuffer, avgCopy,
                   waited, serialVars, oled, displayBegun, sendHist, fillHist, readHist,
                   queryHist>>

\* A character other than newline: echo it and append it (main.cpp:132-133, 172)
TaskB_ReadChar ==
    /\ pcB = "poll"
    /\ rx # <<>>
    /\ Head(rx) # "\n"
    /\ rx' = Tail(rx)
    /\ serialOut' = Append(serialOut, Head(rx))
    /\ inputBuffer' = Append(inputBuffer, Head(rx))
    /\ UNCHANGED <<samplerVars, globalAverage, avgMutex, taskAHandle,
                   timerEnabled, pcSetup, taskAVars, pcB, avgCopy, waited,
                   linesSent, oled, displayBegun, sendHist, fillHist, readHist,
                   queryHist>>

\* A newline: echo it, trim the buffer and compare it with "avg"
\* (main.cpp:132-139); isAvg(line) is the comparison.
TaskB_ReadNewlineIf(isAvg) ==
    /\ pcB = "poll"
    /\ rx # <<>>
    /\ Head(rx) = "\n"
    /\ rx' = Tail(rx)
    /\ serialOut' = Append(serialOut, Head(rx))
    /\ inputBuffer' = Trim(inputBuffer)
    /\ pcB' = IF isAvg THEN "take" ELSE "echo"
    /\ waited' = 0
    /\ UNCHANGED <<samplerVars, globalAverage, avgMutex, taskAHandle,
                   timerEnabled, pcSetup, taskAVars, avgCopy, linesSent, oled,
                   displayBegun, sendHist, fillHist, readHist, queryHist>>

\* Variant: String::equalsIgnoreCase instead of ==.
ToLower(s) == [k \in 1..Len(s) |-> IF s[k] = "A" THEN "a" ELSE s[k]]

TaskB_ReadNewlineIgnoreCase ==
    TaskB_ReadNewlineIf(ToLower(Trim(inputBuffer)) = AvgCommand)

TaskB_ReadNewline == TaskB_ReadNewlineIf(Trim(inputBuffer) = AvgCommand)

\* Variant: the buffer is reset on the query path only.
TaskB_EchoKeeping ==
    /\ pcB = "echo"
    /\ serialOut' = serialOut \o inputBuffer \o Eol
    /\ updateOLED(inputBuffer)
    /\ pcB' = "poll"
    /\ UNCHANGED <<samplerVars, globalAverage, avgMutex, taskAHandle,
                   timerEnabled, pcSetup, taskAVars, inputBuffer, avgCopy,
                   waited, rx, linesSent, displayBegun, sendHist, fillHist,
                   readHist, queryHist>>

\* Any other line (main.cpp:162-168)
TaskB_Echo ==
    /\ pcB = "echo"
    /\ serialOut' = serialOut \o inputBuffer \o Eol
    /\ updateOLED(inputBuffer)
    /\ inputBuffer' = <<>>
    /\ pcB' = "poll"
    /\ UNCHANGED <<samplerVars, globalAverage, avgMutex, taskAHandle,
                   timerEnabled, pcSetup, taskAVars, avgCopy, waited, rx,
                   linesSent, displayBegun, sendHist, fillHist, readHist, queryHist>>

\* xSemaphoreTake(avgMutex, pdMS_TO_TICKS(50)) returns pdTRUE (main.cpp:144),
\* which it does when the mutex is available.
TaskB_TakeWhen(available) ==
    /\ pcB = "take"
    /\ available
    /\ avgMutex' = "TaskB"
    /\ pcB' = "read"
    /\ waited' = 0
    /\ UNCHANGED <<samplerVars, globalAverage, taskAHandle, timerEnabled,
                   pcSetup, taskAVars, inputBuffer, avgCopy, serialVars, oled,
                   displayBegun, sendHist, fillHist, readHist, queryHist>>

\* Variant: the take succeeds whoever holds the mutex.
TaskB_TakeUnguarded == TaskB_TakeWhen(TRUE)

TaskB_Take == TaskB_TakeWhen(avgMutex = "free")

\* A tick passes while TaskB is blocked on the mutex.
TaskB_TakeTick ==
    /\ pcB = "take"
    /\ avgMutex # "free"
    /\ waited < TakeTimeout
    /\ waited' = waited + 1
    /\ UNCHANGED <<samplerVars, globalAverage, avgMutex, taskAHandle,
                   timerEnabled, pcSetup, taskAVars, pcB, inputBuffer, avgCopy,
                   serialVars, oled, displayBegun, sendHist, fillHist, readHist,
                   queryHist>>

\* xSemaphoreTake returns pdFALSE: the block time has expired and the mutex
\* is still held (main.cpp:144, 157-159, 168); shown is what the display
\* shows afterwards.
TaskB_TakeTimeoutShowing(shown) ==
    /\ pcB = "take"
    /\ avgMutex # "free"
    /\ waited = TakeTimeout
    /\ serialOut' = serialOut \o ErrorString \o Eol
    /\ oled' = shown
    /\ inputBuffer' = <<>>
    /\ pcB' = "poll"
    /\ waited' = 0
    /\ UNCHANGED <<samplerVars, globalAverage, avgMutex, taskAHandle,
                   timerEnabled, pcSetup, taskAVars, avgCopy, rx, linesSent,
                   displayBegun, sendHist, fillHist, readHist, queryHist>>

\* Variant: the error is rendered on the display too.
TaskB_TakeTimeoutRendered == TaskB_TakeTimeoutShowing(ErrorString)

TaskB_TakeTimeout == TaskB_TakeTimeoutShowing(oled)

\* Under the mutex: print the prefix, copy globalAverage, print the copy
\* (main.cpp:145-148)
TaskB_Read ==
    /\ pcB = "read"
    /\ avgCopy' = globalAverage
    /\ serialOut' = serialOut \o AveragePrefix \o FormatFloat(globalAverage) \o Eol
    /\ pcB' = "give"
    /\ lastQuery' = <<globalAverage>>
    /\ flipSince' = FALSE
    /\ storeSince' = FALSE
    /\ repeated' = (lastQuery # <<>> /\ ~storeSince)
    /\ UNCHANGED <<samplerVars, globalAverage, avgMutex, taskAHandle,
                   timerEnabled, pcSetup, taskAVars, inputBuffer, waited, rx,
                   linesSent, oled, displayBegun, sendHist, fillHist, readHist,
                   published>>

\* xSemaphoreGive(avgMutex) (main.cpp:150) leaves the mutex as after.
TaskB_GiveLeaving(after) ==
    /\ pcB = "give"
    /\ avgMutex' = after
    /\ pcB' = "show"
    /\ UNCHANGED <<samplerVars, globalAverage, taskAHandle, timerEnabled,
                   pcSetup, taskAVars, inputBuffer, avgCopy, waited,
                   serialVars, oled, displayBegun, sendHist, fillHist, readHist,
                   queryHist>>

\* Variant: the give is missing.
TaskB_GiveForgotten == TaskB_GiveLeaving(avgMutex)

TaskB_Give == TaskB_GiveLeaving("free")

\* Render value and reset the buffer (main.cpp:153-154, 168); avgCopy goes
\* out of scope.
TaskB_ShowValue(value) ==
    /\ pcB = "show"
    /\ updateOLED(AveragePrefix \o FormatFloat(value))
    /\ inputBuffer' = <<>>
    /\ avgCopy' = FloatZero
    /\ pcB' = "poll"
    /\ repeated' = FALSE
    /\ UNCHANGED <<samplerVars, globalAverage, avgMutex, taskAHandle,
                   timerEnabled, pcSetup, taskAVars, waited, serialVars,
                   displayBegun, sendHist, fillHist, readHist, lastQuery, flipSince,
                   storeSince, published>>

\* Variant: the display shows globalAverage, read again after the give.
TaskB_ShowGlobal == TaskB_ShowValue(globalAverage)

TaskB_Show == TaskB_ShowValue(avgCopy)

TaskB ==
    \/ TaskB_Delay \/ TaskB_Wake \/ TaskB_ReadChar \/ TaskB_ReadNewline
    \/ TaskB_Echo \/ TaskB_Take \/ TaskB_TakeTick \/ TaskB_TakeTimeout
    \/ TaskB_Read \/ TaskB_Give \/ TaskB_Show

----
\* setup() (main.cpp:181-237).  Task creation is taken to succeed: the source
\* does not test its result.

\* avgMutex = xSemaphoreCreateMutex(), and the halt when it fails
\* (main.cpp:186-190)
Setup_CreateMutex ==
    /\ pcSetup = "mutex"
    /\ \E created \in BOOLEAN :
         IF created
            THEN /\ avgMutex' = "free"
                 /\ pcSetup' = "taskA"
                 /\ UNCHANGED serialOut
            ELSE /\ serialOut' = serialOut \o <<"Failed to create mutex!">> \o Eol
                 /\ pcSetup' = "halt"
                 /\ UNCHANGED avgMutex
    /\ UNCHANGED <<samplerVars, globalAverage, taskAHandle, timerEnabled,
                   taskAVars, taskBVars, rx, linesSent, oled, displayBegun,
                   sendHist, fillHist, readHist, queryHist>>

\* xTaskCreatePinnedToCore(TaskA, ..., &taskAHandle, 0) (main.cpp:193-201)
Setup_CreateTaskA ==
    /\ pcSetup = "taskA"
    /\ pcA' = "wait"
    /\ taskAHandle' = TRUE
    /\ pcSetup' = "taskB"
    /\ UNCHANGED <<samplerVars, globalAverage, avgMutex, timerEnabled,
                   bufferIndex, sum, i, average, taskBVars, serialVars, oled,
                   displayBegun, sendHist, fillHist, readHist, queryHist>>

\* xTaskCreatePinnedToCore(TaskB, ...) (main.cpp:204-212)
Setup_CreateTaskB ==
    /\ pcSetup = "taskB"
    /\ pcB' = "poll"
    /\ pcSetup' = "timer"
    /\ UNCHANGED <<samplerVars, globalAverage, avgMutex, taskAHandle,
                   timerEnabled, taskAVars, inputBuffer, avgCopy, waited,
                   serialVars, oled, displayBegun, sendHist, fillHist, readHist,
                   queryHist>>

\* timerBegin ... timerAlarmEnable (main.cpp:215-218)
Setup_StartTimer ==
    /\ pcSetup = "timer"
    /\ timerEnabled' = TRUE
    /\ pcSetup' = "display"
    /\ UNCHANGED <<samplerVars, globalAverage, avgMutex, taskAHandle,
                   taskAVars, taskBVars, serialVars, oled, displayBegun,
                   sendHist, fillHist, readHist, queryHist>>

\* display.begin, and the endless loop when it fails (main.cpp:221-224)
Setup_DisplayBegin ==
    /\ pcSetup = "display"
    /\ \E begun \in BOOLEAN :
         IF begun
            THEN /\ displayBegun' = TRUE
                 /\ pcSetup' = "banner"
                 /\ UNCHANGED serialOut
            ELSE /\ serialOut' = serialOut \o <<"SSD1306 allocation failed">> \o Eol
                 /\ pcSetup' = "halt"
                 /\ UNCHANGED displayBegun
    /\ UNCHANGED <<samplerVars, globalAverage, avgMutex, taskAHandle,
                   timerEnabled, taskAVars, taskBVars, rx, linesSent, oled,
                   sendHist, fillHist, readHist, queryHist>>

\* Show "OLED Ready"; the clearDisplay that follows is not sent to the
\* display; the setup task deletes itself (main.cpp:226-236)
Setup_Banner ==
    /\ pcSetup = "banner"
    /\ oled' = <<"OLED Ready">>
    /\ pcSetup' = "done"
    /\ UNCHANGED <<samplerVars, globalAverage, avgMutex, taskAHandle,
                   timerEnabled, taskAVars, taskBVars, serialVars,
                   displayBegun, sendHist, fillHist, readHist, queryHist>>

Setup ==
    \/ Setup_CreateMutex \/ Setup_CreateTaskA \/ Setup_CreateTaskB
    \/ Setup_StartTimer \/ Setup_DisplayBegin \/ Setup_Banner

----
\* The serial peer

\* Lines the peer may send (each is followed by a newline).
Lines ==
    { <<"a", "v", "g">>,
      <<" ", "a", "v", "g", "\r">>,
      <<"A", "v", "g", " ">> }

\* The peer, having read what was written so far, sends one of lines, up to
\* limit times; its bytes wait in the receive buffer.
SerialSendFrom(lines, limit) ==
    /\ linesSent < limit
    /\ rx = <<>>
    /\ \E line \in lines : rx' = line \o <<"\n">>
    /\ linesSent' = linesSent + 1
    /\ serialOut' = <<>>
    /\ UNCHANGED <<samplerVars, globalAverage, avgMutex, taskAHandle,
                   timerEnabled, pcSetup, taskAVars, taskBVars, oled,
                   displayBegun, sendHist, fillHist, readHist, queryHist>>

SerialSend == SerialSendFrom(Lines, MaxLines)

\* The peer sends nothing but the command.
SerialSendAvg == SerialSendFrom({AvgCommand}, MaxQueries)

\* Two lines that arrive together: the command and another line, either first.
Bursts ==
    { <<"a", "v", "g", "\n", "A", "v", "g", " ">>,
      <<"A", "v", "g", " ", "\n", "a", "v", "g">> }

\* The peer sends two lines at once.
SerialSendBurst == SerialSendFrom(Bursts, MaxLines)

----
\* The whole system.
Next == Setup \/ onTimer \/ TaskA \/ TaskB \/ SerialSend

Spec == Init /\ [][Next]_vars

\* The system while the serial peer is silent: TaskB only polls.
SamplingNext == Setup \/ onTimer \/ TaskA \/ TaskB_Delay \/ TaskB_Wake

SamplingSpec == Init /\ [][SamplingNext]_vars

\* The system while the analog input is the square wave.
QueryNext == Setup \/ onTimerWave \/ TaskA \/ TaskB \/ SerialSend

QuerySpec == Init /\ [][QueryNext]_vars

\* The system while the analog input is the square wave and the peer sends
\* nothing but the command.
LockNext ==
    \/ Setup \/ onTimerWave \/ TaskA \/ SerialSendAvg
    \/ TaskB_Delay \/ TaskB_Wake \/ TaskB_ReadChar \/ TaskB_ReadNewline
    \/ TaskB_Take \/ TaskB_TakeTick \/ TaskB_TakeTimeout
    \/ TaskB_Read \/ TaskB_Give \/ TaskB_Show

\* Scheduling: TaskA and TaskB have the same priority on one core and are
\* time-sliced, so each runs again whenever it stays ready, and a task
\* blocked on the mutex is made ready by every give.
LockSpec == Init /\ [][LockNext]_vars

FairLockSpec ==
    /\ LockSpec
    /\ WF_vars(TaskA)
    /\ WF_vars(TaskB)
    /\ SF_vars(TaskA_Take)

\* The system while the analog input is the square wave and the peer sends
\* its lines two at a time.
DialogueNext == Setup \/ onTimerWave \/ TaskA \/ TaskB \/ SerialSendBurst

DialogueSpec == Init /\ [][DialogueNext]_vars

\* TaskB is scheduled again whenever it is ready; while it is blocked on the
\* mutex its block time runs.
FairDialogueSpec == DialogueSpec /\ WF_vars(TaskB)

----
\* Claims

\* C1: when TaskA has stored the mean of a buffer that the ISR did not write
\* while TaskA summed it, globalAverage is the sum of the readings of that
\* fill divided by the buffer length.
C1_StoredMeanOfFill ==
    (pcA = "give" /\ ~torn) => globalAverage = FloatDiv(expected, BufLen)

C1_Witness ==
    /\ pcA = "give"
    /\ ~torn
    /\ expected > 0
    /\ globalAverage = FloatDiv(expected, BufLen)
    /\ globalAverage # FloatZero

\* C2: a receive happens only after a send, returns the payload of the most
\* recent send, whatever was sent before it, and leaves nothing pending, so
\* that two sends with no receive between them make one receive.
C2_LatestWins ==
    [][(pcA = "wait" /\ pcA' = "sum")
         => /\ unreceived >= 1
            /\ bufferIndex' = lastSent
            /\ notifyPending
            /\ ~notifyPending']_vars

C2_Witness ==
    /\ pcA = "sum"
    /\ merged
    /\ bufferIndex = lastSent
    /\ ~notifyPending

\* C6: every send carries the buffer other than the one the previous send
\* carried, and the first send carries 0.
C6_SendsAlternate ==
    [][sendToggle' # sendToggle
         => /\ notifyValue' = lastSent'
            /\ lastSent' = IF lastSent = -1 THEN 0 ELSE 1 - lastSent]_vars

C6_Witness ==
    /\ lastSent = 0
    /\ samples[1][BufLen - 1] # 0
    /\ unreceived = 2

\* C7: writeIndex is 0 or 1 and samplePos is below the buffer length in every
\* state; writeIndex changes only in the invocation that writes the last
\* entry of the buffer, which also resets samplePos, and samplePos never
\* returns to 0 otherwise.
C7_IndexAndPosition ==
    /\ [](writeIndex \in Slots /\ samplePos \in 0..(BufLen - 1))
    /\ [][/\ writeIndex' # writeIndex
             => /\ samplePos = BufLen - 1
                /\ samplePos' = 0
                /\ writeIndex' = 1 - writeIndex
          /\ samplePos' # samplePos
             => \/ samplePos' = samplePos + 1 /\ writeIndex' = writeIndex
                \/ samplePos = BufLen - 1 /\ samplePos' = 0
                   /\ writeIndex' # writeIndex]_vars

C7_Witness ==
    /\ writeIndex = 1
    /\ samplePos = 0
    /\ lastSent = 0
    /\ samples[0][BufLen - 1] # 0

\* C3: TaskA is in its critical section only while it holds avgMutex, TaskB
\* likewise, and never both; globalAverage changes only in TaskA's store,
\* made holding the mutex, and TaskB copies it only holding the mutex.
C3_LockDiscipline ==
    /\ [](/\ pcA \in {"store", "give"} => avgMutex = "TaskA"
          /\ pcB \in {"read", "give"} => avgMutex = "TaskB"
          /\ ~(pcA \in {"store", "give"} /\ pcB \in {"read", "give"}))
    /\ [][/\ globalAverage' # globalAverage
             => /\ pcA = "store"
                /\ avgMutex = "TaskA"
                /\ globalAverage' = average
          /\ (avgCopy' # avgCopy /\ pcB' # "poll")
             => /\ pcB = "read"
                /\ avgMutex = "TaskB"
                /\ avgCopy' = globalAverage]_vars

C3_Witness ==
    /\ pcB = "give"
    /\ avgMutex = "TaskB"
    /\ avgCopy = globalAverage
    /\ avgCopy # FloatZero
    /\ pcA = "take"

\* C5: TaskB never waits for the mutex beyond its timeout; when the take
\* fails, the timeout has passed with the mutex held, the error string and a
\* line end are all that is written to Serial, the display keeps its
\* content, and globalAverage is not copied.
C5_TimeoutIsReported ==
    /\ [](pcB = "take" => waited <= TakeTimeout)
    /\ [][(pcB = "take" /\ pcB' # "take" /\ avgMutex' # "TaskB")
            => /\ waited = TakeTimeout
               /\ avgMutex # "free"
               /\ serialOut'
                    = serialOut \o <<"ERROR! >_<...Couldn't access average", "\r\n">>
               /\ oled' = oled
               /\ avgCopy' = avgCopy
               /\ lastQuery' = lastQuery
               /\ pcB' = "poll"]_vars

C5_Witness ==
    /\ pcB = "poll"
    /\ Len(serialOut) >= 2
    /\ SubSeq(serialOut, Len(serialOut) - 1, Len(serialOut))
         = <<"ERROR! >_<...Couldn't access average", "\r\n">>
    /\ oled = <<"OLED Ready">>
    /\ pcA = "store"

\* C8, as the specification states it: a query that follows a query with no
\* buffer completed between their reads returns the same value.
C8_SameWithoutFlip ==
    [][(pcB = "read" /\ pcB' = "give" /\ lastQuery # <<>> /\ ~flipSince)
         => avgCopy' = lastQuery[1]]_vars

\* C8, amended: a query that follows a query with no store by TaskA between
\* their reads returns the same value.
C8_SameWithoutStore ==
    [][(pcB = "read" /\ pcB' = "give" /\ lastQuery # <<>> /\ ~storeSince)
         => avgCopy' = lastQuery[1]]_vars

C8_Witness ==
    /\ pcB = "give"
    /\ repeated
    /\ avgCopy # FloatZero
    /\ lastQuery = <<avgCopy>>

\* C9: TaskB is on the query path only with "avg" as the trimmed line; under
\* the mutex it writes "Average: ", the value of globalAverage and a line
\* end to Serial, and afterwards it renders "Average: " and that same value
\* on the display.
C9_AverageShown ==
    /\ [](pcB \in {"take", "read", "give", "show"} => inputBuffer = <<"a", "v", "g">>)
    /\ [][/\ (pcB = "read" /\ pcB' # "read")
             => /\ avgMutex = "TaskB"
                /\ serialOut'
                     = serialOut \o <<"Average: ">> \o FormatFloat(globalAverage)
                                 \o <<"\r\n">>
                /\ lastQuery' = <<globalAverage>>
          /\ (pcB = "show" /\ pcB' # "show")
             => oled' = <<"Average: ">> \o FormatFloat(lastQuery[1])]_vars

C9_Witness ==
    /\ pcB = "poll"
    /\ lastQuery = <<FloatDiv(MaxAdc, 1)>>
    /\ globalAverage = FloatZero
    /\ oled = <<"Average: ", ToString(MaxAdc), ".", "0", "0">>
    /\ serialOut = <<"a", "v", "g", "\n",
                     "Average: ", ToString(MaxAdc), ".", "0", "0", "\r\n">>

\* t is raw without its leading and trailing white space.
TrimmedOf(raw, t) ==
    \E a, b \in 0..Len(raw) :
        /\ a + Len(t) + b = Len(raw)
        /\ t = SubSeq(raw, a + 1, a + Len(t))
        /\ \A k \in 1..a : raw[k] \in {" ", "\t", "\n", "\r"}
        /\ \A k \in (Len(raw) - b + 1)..Len(raw) : raw[k] \in {" ", "\t", "\n", "\r"}
        /\ t # <<>> => /\ t[1] \notin {" ", "\t", "\n", "\r"}
                       /\ t[Len(t)] \notin {" ", "\t", "\n", "\r"}

\* C10: at a newline the buffer becomes its trimmed content, and TaskB takes
\* the echo path exactly when that content is not "avg"; on the echo path it
\* writes the content and a line end to Serial and renders the content on
\* the display, without taking the mutex or copying globalAverage.
C10_OtherLineEchoed ==
    /\ [](pcB = "echo" => avgMutex # "TaskB")
    /\ [][/\ (pcB = "poll" /\ pcB' \in {"take", "echo"})
             => /\ TrimmedOf(inputBuffer, inputBuffer')
                /\ pcB' = "echo" <=> inputBuffer' # <<"a", "v", "g">>
          /\ (pcB = "echo" /\ pcB' # "echo")
             => /\ serialOut' = serialOut \o inputBuffer \o <<"\r\n">>
                /\ oled' = inputBuffer
                /\ avgMutex' = avgMutex
                /\ avgCopy' = avgCopy
                /\ lastQuery' = lastQuery
                /\ pcB' = "poll"]_vars

C10_Witness ==
    /\ pcB = "poll"
    /\ inputBuffer = <<>>
    /\ oled = <<"A", "v", "g">>
    /\ serialOut = <<"A", "v", "g", " ", "\n", "A", "v", "g", "\r\n">>

\* C4: once TaskA has received a buffer it comes to hold avgMutex with the
\* mean stored in globalAverage, and then releases the mutex and waits for
\* the next buffer.
C4_WriterCompletes ==
    /\ (pcA = "sum") ~> (pcA = "give" /\ avgMutex = "TaskA" /\ globalAverage = average)
    /\ (pcA = "give") ~> (pcA = "wait" /\ avgMutex # "TaskA")

C4_Witness ==
    /\ pcA = "take"
    /\ avgMutex = "TaskB"
    /\ pcB = "read"
    /\ linesSent = MaxQueries

\* C11: once setup() has halted, whether for the mutex or for the display,
\* the ISR, TaskA and TaskB take no further step.
C11_HaltStopsAll ==
    [][pcSetup = "halt" => UNCHANGED <<samplerVars, taskAVars, taskBVars>>]_vars

\* C12: once the timer runs, the ISR can run to completion in every state,
\* with any reading, whoever holds avgMutex and whether or not a notification
\* is pending; an invocation leaves avgMutex and both tasks where they are.
C12_SamplerNeverBlocks ==
    /\ [](timerEnabled => \A adcValue \in AdcRange : ENABLED Sample(adcValue))
    /\ [][samplePos' # samplePos => UNCHANGED <<avgMutex, pcA, pcB, waited>>]_vars

C12_Witness ==
    /\ timerEnabled
    /\ pcB = "read"
    /\ avgMutex = "TaskB"
    /\ notifyPending
    /\ unreceived = 2
    /\ samplePos = 1

\* C13: no step modifies the buffer whose id was sent last, so from a flip to
\* the next one the ISR writes only into the other buffer; and when TaskA
\* has finished summing a buffer received after a single send, with no send
\* since, the ISR has not written into it and the mean is that of its fill.
C13_HandedSlotUntouched ==
    /\ [][lastSent # -1 => samples'[lastSent] = samples[lastSent]]_vars
    /\ []((pcA \in {"take", "store", "give"} /\ unreceived = 0 /\ ~merged)
            => /\ ~torn
               /\ average = FloatDiv(expected, BufLen))

C13_Witness ==
    /\ pcA = "take"
    /\ unreceived = 0
    /\ ~merged
    /\ writeIndex = 1 - bufferIndex
    /\ samplePos = BufLen - 1
    /\ average = FloatDiv(MaxAdc, 1)
    /\ samples[writeIndex][0] = 0

\* C14: while TaskA sums a buffer, that buffer is the one the ISR writes
\* exactly when a further buffer has been completed since TaskA received it;
\* every invocation of the ISR then stores its reading into the buffer being
\* summed, whatever TaskA has read of it.  The state the claim describes,
\* a published value that is the mean neither of the fill handed off nor of
\* the fill that overwrote it, is C14_Witness.
C14_OverwrittenWhileRead ==
    /\ [](pcA = "sum" => /\ unreceived = 0 => writeIndex # bufferIndex
                         /\ unreceived = 1 => writeIndex = bufferIndex)
    /\ [][(pcA = "sum" /\ writeIndex = bufferIndex /\ samplePos' # samplePos)
            => LET reading == (IF samplePos' = 0 THEN handedSum' ELSE fillSum')
                                - fillSum
               IN /\ samples'[bufferIndex][samplePos] = reading
                  /\ torn']_vars

C14_Witness ==
    /\ pcA = "give"
    /\ torn
    /\ expected = 0
    /\ \A k \in 0..(BufLen - 1) : samples[bufferIndex][k] = MaxAdc
    /\ globalAverage \notin {FloatZero, FloatDiv(MaxAdc, 1)}

\* C15: an invocation of the ISR sends a notification exactly when it writes
\* the last entry of the buffer, which is when it flips writeIndex; the value
\* sent is writeIndex as it was before the flip; an invocation that does not
\* send leaves the notification as it is, and nothing else sends.
C15_HandoffOnNth ==
    [][/\ samplePos' # samplePos
          => /\ (sendToggle' # sendToggle) <=> (samplePos = BufLen - 1)
             /\ (sendToggle' # sendToggle) <=> (writeIndex' # writeIndex)
             /\ sendToggle' # sendToggle
                  => /\ notifyPending'
                     /\ notifyValue' = writeIndex
                     /\ notifyValue' # writeIndex'
             /\ sendToggle' = sendToggle
                  => UNCHANGED <<notifyPending, notifyValue>>
       /\ sendToggle' # sendToggle => samplePos' # samplePos]_vars

C15_Witness ==
    /\ notifyPending
    /\ notifyValue = 1
    /\ unreceived = 1
    /\ writeIndex = 0
    /\ samplePos = 0
    /\ pcA = "wait"

\* Notifications sent that have not led to a stored mean yet, counted up to
\* the cap of unreceived: those TaskA has not received and the one it is
\* working on.
Unpublished == unreceived + (IF pcA \in {"sum", "take", "store"} THEN 1 ELSE 0)

\* C16: a notification is pending exactly while a send is unreceived; TaskA
\* leaves its wait only with a notification pending, which the receive
\* consumes, and starts summing only from its wait; a store uses up one
\* unpublished notification, and only a send adds one, so TaskA never stores
\* more means than the ISR has completed buffers.
C16_ReceiveConsumes ==
    /\ [](notifyPending <=> unreceived >= 1)
    /\ [][/\ (pcA = "wait" /\ pcA' # "wait")
             => /\ notifyPending
                /\ ~notifyPending'
                /\ unreceived' = 0
                /\ pcA' = "sum"
          /\ (pcA' = "sum" /\ pcA # "sum") => pcA = "wait"
          /\ (pcA = "store" /\ pcA' # "store")
             => /\ Unpublished >= 1
                /\ Unpublished' = Unpublished - 1
          /\ globalAverage' # globalAverage => (pcA = "store" /\ pcA' # "store")
          /\ Unpublished' > Unpublished
             => /\ sendToggle' # sendToggle
                /\ Unpublished' = Unpublished + 1]_vars

C16_Witness ==
    /\ pcA = "wait"
    /\ ~notifyPending
    /\ unreceived = 0
    /\ globalAverage # FloatZero
    /\ sendToggle = 1

\* C17: TaskB leaves its polling for a dispatch only by reading a newline;
\* what it dispatches is the trimmed text of that line alone; whichever way
\* the dispatch ends (echo, average shown, average unavailable), it returns
\* to polling with the buffer empty; and every dispatch does end.
C17_DispatchReturnsEmpty ==
    /\ [][/\ (pcB = "poll" /\ pcB' \notin {"poll", "delay"})
             => /\ rx # <<>>
                /\ Head(rx) = "\n"
                /\ rx' = Tail(rx)
                /\ pcB' \in {"take", "echo"}
          /\ (pcB \in {"take", "echo", "read", "give", "show"} /\ pcB' = "poll")
             => /\ inputBuffer' = <<>>
                /\ rx' = rx
          /\ (pcB \in {"take", "read", "give"} /\ pcB' # "poll")
             => inputBuffer' = inputBuffer]_vars
    /\ [](pcB \in {"take", "read", "give", "show"} => inputBuffer = <<"a", "v", "g">>)
    /\ [](pcB = "echo" => inputBuffer = <<"A", "v", "g">>)
    /\ (pcB \in {"take", "echo", "read", "give", "show"})
          ~> (pcB = "poll" /\ inputBuffer = <<>>)

C17_Witness ==
    /\ pcB = "take"
    /\ inputBuffer = <<"a", "v", "g">>
    /\ rx = <<>>
    /\ oled = <<"A", "v", "g">>
    /\ avgMutex = "TaskA"

\* C18: a task holds avgMutex only between its take and its give, where its
\* next step is enabled whatever the other task does; so TaskA does not hold
\* it while it waits for a notification, TaskB does not hold it while it
\* polls, sleeps, waits for the mutex or has given up waiting; and the mutex
\* is released only by the task that holds it, in its give.
C18_LockReleased ==
    /\ [](avgMutex = "TaskA" => /\ pcA \in {"store", "give"}
                                /\ ENABLED (TaskA_Store \/ TaskA_Give))
    /\ [](avgMutex = "TaskB" => /\ pcB \in {"read", "give"}
                                /\ ENABLED (TaskB_Read \/ TaskB_Give))
    /\ [][/\ (avgMutex = "TaskA" /\ avgMutex' # "TaskA")
             => (avgMutex' = "free" /\ pcA = "give" /\ pcA' = "wait")
          /\ (avgMutex = "TaskB" /\ avgMutex' # "TaskB")
             => (avgMutex' = "free" /\ pcB = "give" /\ pcB' = "show")
          /\ (pcB = "take" /\ pcB' = "poll") => avgMutex' = avgMutex]_vars

C18_Witness ==
    /\ avgMutex = "free"
    /\ pcA = "wait"
    /\ pcB = "delay"
    /\ globalAverage # FloatZero
    /\ lastQuery = <<globalAverage>>

\* C19: the value a query copies under the mutex, and returns, is the value
\* of TaskA's latest store, or 0.0 when TaskA has not stored yet; it is
\* still that value when TaskB releases the mutex.
C19_QueryReturnsPublished ==
    /\ [][(pcB = "read" /\ pcB' # "read")
            => /\ avgCopy' = published
               /\ lastQuery' = <<published>>]_vars
    /\ [](pcB = "give" => avgCopy = published)

C19_Witness ==
    /\ pcB = "give"
    /\ linesSent = MaxQueries
    /\ ~repeated
    /\ published = FloatDiv(MaxAdc, 1)
    /\ avgCopy = published

\* C20: TaskB renders on the display (updateOLED, at the end of the echo path
\* and of the answered query) only after display.begin has returned success.
C20_RenderAfterBegin ==
    [][(pcB \in {"echo", "show"} /\ pcB' = "poll") => displayBegun]_vars

====
